---- MODULE Spec2Model ----
(***************************************************************************)
(* Model of the dependency graph analyzer (src/dep-graph-analyzer.py):     *)
(* file discovery, classification, import extraction, import resolution,   *)
(* the graph builder and the JSON document.                                *)
(*                                                                         *)
(* Strings are TLA+ strings (Len, SubSeq and \o act on them as on Python   *)
(* str).  A pathlib.Path is the sequence of its parts below the filesystem *)
(* root, so <<"Users","damon","x.ts">> is /Users/damon/x.ts.  The          *)
(* filesystem is case sensitive and has no symbolic links.                 *)
(***************************************************************************)
EXTENDS Integers, Sequences, FiniteSets, TLC

VARIABLES
    files,        \* filesystem snapshot: the set of regular files (paths)
    content,      \* filesystem snapshot: file -> its text, as a sequence of import constructs
    unreadable,   \* filesystem snapshot: files whose open() fails
    nodes,        \* self.nodes: insertion-ordered sequence of FileNode records
    edges,        \* self.edges: list of ImportInfo records
    pc,           \* "new" | "built" | "raised" (build_dependency_graph propagated an exception)
    builds,       \* number of calls of build_dependency_graph on this analyzer
    doc,          \* last value returned by generate_json_output
    res,          \* last call of resolve_import_path: arguments and result
    cls,          \* last call of classify_file_type: argument and result
    report        \* last rankings printed by analyze_dependency_graph

vars == <<files, content, unreadable, nodes, edges, pc, builds, doc, res, cls, report>>

-----------------------------------------------------------------------------
(* Bounds *)

MaxImports == 2    \* import constructs in the whole source tree
MaxBuilds  == 2    \* calls of build_dependency_graph on one analyzer
MaxDepth   == 1    \* directory levels below src/ of a classified file

-----------------------------------------------------------------------------
(* Python str *)

StartsWith(s, p) == Len(s) >= Len(p) /\ SubSeq(s, 1, Len(p)) = p

EndsWith(s, p) == Len(s) >= Len(p) /\ SubSeq(s, Len(s) - Len(p) + 1, Len(s)) = p

\* p in s
Contains(s, p) == \E i \in 1..(Len(s) - Len(p) + 1) : SubSeq(s, i, i + Len(p) - 1) = p

\* s.find(c) + 1 for a one-character c; 0 when absent
Find(s, c) ==
    IF \E i \in 1..Len(s) : SubSeq(s, i, i) = c
    THEN CHOOSE i \in 1..Len(s) :
            /\ SubSeq(s, i, i) = c
            /\ \A j \in 1..(i - 1) : SubSeq(s, j, j) # c
    ELSE 0

\* s.rfind(c) + 1 for a one-character c; 0 when absent
RFind(s, c) ==
    IF \E i \in 1..Len(s) : SubSeq(s, i, i) = c
    THEN CHOOSE i \in 1..Len(s) :
            /\ SubSeq(s, i, i) = c
            /\ \A j \in (i + 1)..Len(s) : SubSeq(s, j, j) # c
    ELSE 0

RECURSIVE Split(_)
\* s.split('/')
Split(s) ==
    LET i == Find(s, "/")
    IN  IF i = 0 THEN <<s>>
        ELSE <<SubSeq(s, 1, i - 1)>> \o Split(SubSeq(s, i + 1, Len(s)))

RECURSIVE Join(_)
\* '/'.join(parts)
Join(parts) ==
    IF Len(parts) = 0 THEN ""
    ELSE IF Len(parts) = 1 THEN parts[1]
    ELSE parts[1] \o "/" \o Join(Tail(parts))

\* The characters of the modelled names in code point order
Chars == "-./0123456789@ABCDEFGHIJKLMNOPQRSTUVWXYZ_abcdefghijklmnopqrstuvwxyz"

\* ord(c), up to the characters that do not occur
OrdTable == [c \in {SubSeq(Chars, i, i) : i \in 1..Len(Chars)} |-> Find(Chars, c)]

Ord(c) == OrdTable[c]

RECURSIVE StrLess(_, _)
\* a < b on str: code point order, a proper prefix first
StrLess(a, b) ==
    IF Len(b) = 0 THEN FALSE
    ELSE IF Len(a) = 0 THEN TRUE
    ELSE IF Head(a) = Head(b) THEN StrLess(Tail(a), Tail(b))
    ELSE Ord(Head(a)) < Ord(Head(b))

-----------------------------------------------------------------------------
(* pathlib *)

IsPrefix(p, q) == Len(p) <= Len(q) /\ SubSeq(q, 1, Len(p)) = p

Parent(p) == SubSeq(p, 1, Len(p) - 1)

Name(p) == p[Len(p)]

KeepPart(x) == x # "" /\ x # "."

\* the parts of a relative path string: empty and '.' components are dropped
ParseParts(s) == SelectSeq(Split(s), KeepPart)

\* base / s: an absolute s replaces base
JoinPath(base, s) == IF StartsWith(s, "/") THEN ParseParts(s) ELSE base \o ParseParts(s)

RECURSIVE Resolve(_)
\* Path.resolve() without symbolic links: '..' steps to the parent
Resolve(p) ==
    IF Len(p) = 0 THEN <<>>
    ELSE LET r == Resolve(Parent(p))
         IN  IF Name(p) = ".."
             THEN (IF Len(r) = 0 THEN <<>> ELSE Parent(r))
             ELSE Append(r, Name(p))

\* PurePath.suffix of a file name
Suffix(name) ==
    LET i == RFind(name, ".")
    IN  IF 1 < i /\ i < Len(name) THEN SubSeq(name, i, Len(name)) ELSE ""

\* Path.with_suffix(ext): the existing suffix, when there is one, is replaced
WithSuffix(p, ext) ==
    LET name == Name(p)
        stem == SubSeq(name, 1, Len(name) - Len(Suffix(name)))
    IN  Append(Parent(p), stem \o ext)

\* PurePath.__lt__: comparison of the parts tuples
RECURSIVE PathLess(_, _)
PathLess(p, q) ==
    IF Len(q) = 0 THEN FALSE
    ELSE IF Len(p) = 0 THEN TRUE
    ELSE IF Head(p) = Head(q) THEN PathLess(Tail(p), Tail(q))
    ELSE StrLess(Head(p), Head(q))

RECURSIVE SortedPaths(_)
\* sorted(S) for a set of paths
SortedPaths(S) ==
    IF S = {} THEN <<>>
    ELSE LET m == CHOOSE x \in S : \A y \in S : x = y \/ PathLess(x, y)
         IN  <<m>> \o SortedPaths(S \ {m})

-----------------------------------------------------------------------------
(* The analyzer's configuration *)

ProjectRoot == <<"Users", "damon", "liquid-spark-finance">>

SrcRoot == Append(ProjectRoot, "src")

\* Optional[Path] None
None == <<>>

\* path.relative_to(self.project_root) succeeds
InProject(p) == IsPrefix(ProjectRoot, p)

\* str(path.relative_to(self.project_root))
RelativeToRoot(p) == Join(SubSeq(p, Len(ProjectRoot) + 1, Len(p)))

-----------------------------------------------------------------------------
(* Filesystem queries on a snapshot fs (a set of regular files) *)

IsDir(fs, p) == \E f \in fs : IsPrefix(p, f) /\ p # f

Exists(fs, p) == p \in fs \/ IsDir(fs, p)

-----------------------------------------------------------------------------
(* File discovery *)

Extensions == <<".ts", ".tsx", ".js", ".jsx">>

\* fnmatch of a name against '*' + ext
HasSourceExt(name) == \E i \in 1..Len(Extensions) : EndsWith(name, Extensions[i])

\* get_all_source_files: the files below src/ at any depth and the files
\* directly in the project root, with a recognised extension, sorted
get_all_source_files(fs) ==
    SortedPaths({f \in fs :
        /\ HasSourceExt(Name(f))
        /\ \/ IsPrefix(SrcRoot, f) /\ f # SrcRoot
           \/ Parent(f) = ProjectRoot})

-----------------------------------------------------------------------------
(* File classification *)

\* self.file_type_patterns, in dict order
file_type_patterns == <<
    [type |-> "entry",  patterns |-> {"main.tsx", "main.ts", "index.html"}],
    [type |-> "test",   patterns |-> {".test.", ".spec.", "__tests__"}],
    [type |-> "config", patterns |-> {"config.", "setup.", ".config."}],
    [type |-> "type",   patterns |-> {".d.ts", "types.ts"}] >>

InParts(x, parts) == \E i \in 1..Len(parts) : parts[i] = x

\* the elif chain over file_path.parts
ClassifyByDirectory(parts) ==
    IF InParts("components", parts) THEN "component"
    ELSE IF InParts("services", parts) \/ InParts("api", parts) THEN "service"
    ELSE IF InParts("utils", parts) \/ InParts("lib", parts) THEN "utility"
    ELSE IF InParts("pages", parts) THEN "page"
    ELSE IF InParts("hooks", parts) THEN "hook"
    ELSE IF InParts("context", parts) \/ InParts("providers", parts) THEN "context"
    ELSE IF InParts("features", parts) THEN "feature"
    ELSE "module"

ClassifyDirectoryFirst(file_path) ==
    LET relative_path == RelativeToRoot(file_path)
        Hit(i) == \E pattern \in file_type_patterns[i].patterns : Contains(relative_path, pattern)
    IN  IF ClassifyByDirectory(file_path) # "module" THEN ClassifyByDirectory(file_path)
        ELSE IF \E i \in 1..Len(file_type_patterns) : Hit(i)
        THEN file_type_patterns[CHOOSE i \in 1..Len(file_type_patterns) :
                                    Hit(i) /\ \A j \in 1..(i - 1) : ~Hit(j)].type
        ELSE "module"

classify_file_type(file_path) ==
    LET relative_path == RelativeToRoot(file_path)
        Hit(i) == \E pattern \in file_type_patterns[i].patterns : Contains(relative_path, pattern)
    IN  IF \E i \in 1..Len(file_type_patterns) : Hit(i)
        THEN file_type_patterns[CHOOSE i \in 1..Len(file_type_patterns) :
                                    Hit(i) /\ \A j \in 1..(i - 1) : ~Hit(j)].type
        ELSE ClassifyByDirectory(file_path)

-----------------------------------------------------------------------------
(* Import resolution *)

\* resolved_path.with_suffix(ext), the direct-file candidate for one extension
DirectCandidate(resolved_path, ext) == WithSuffix(resolved_path, ext)

\* the candidates of the 'Direct file match' loop, in probe order
DirectCandidates(resolved_path) ==
    [i \in 1..Len(Extensions) |-> DirectCandidate(resolved_path, Extensions[i])]

\* the candidates of the 'Index file match' loop, in probe order
IndexCandidates(fs, resolved_path) ==
    IF IsDir(fs, resolved_path)
    THEN [i \in 1..Len(Extensions) |-> Append(resolved_path, "index" \o Extensions[i])]
    ELSE <<>>

\* possible_paths holds the candidates that exist; the first one is returned
FirstExisting(fs, candidates) ==
    LET IsThere(p) == Exists(fs, p)
        possible_paths == SelectSeq(candidates, IsThere)
    IN  IF Len(possible_paths) > 0 THEN possible_paths[1] ELSE None

\* the probes on resolved_path
Probe(fs, resolved_path) ==
    FirstExisting(fs, DirectCandidates(resolved_path) \o IndexCandidates(fs, resolved_path))

BasePathOfDeclaringFile(alias, from_file) == Parent(from_file)

\* base_path: the src root for an alias path, else the declaring file's directory
BasePath(alias, from_file) == IF alias THEN SrcRoot ELSE Parent(from_file)

\* import_path with the alias marker removed
Stripped(import_path) ==
    IF StartsWith(import_path, "@/") THEN SubSeq(import_path, 3, Len(import_path)) ELSE import_path

\* resolve_import_path; None for an external or unresolved import
resolve_import_path(fs, import_path, from_file) ==
    IF ~StartsWith(import_path, ".") /\ ~StartsWith(import_path, "@/") THEN None
    ELSE Probe(fs, Resolve(JoinPath(BasePath(StartsWith(import_path, "@/"), from_file),
                                    Stripped(import_path))))

-----------------------------------------------------------------------------
(* Import extraction *)

(* A file's text is the sequence of the import constructs written in it,    *)
(* each a record [shape, path]:                                            *)
(*   import_from    import Foo from 'path'                                 *)
(*   import_call    import('path')                                         *)
(*   lazy_call      React.lazy(() => import('path'))                       *)
(*   require_call   require('path')                                        *)
(*   export_from    export * from 'path'                                   *)
Shapes == {"import_from", "import_call", "lazy_call", "require_call", "export_from"}

\* self.import_patterns, in dict order
import_patterns == <<"static_import", "dynamic_import", "lazy_import", "require", "export_from">>

\* the constructs in which each regular expression finds a match
PatternShapes(import_type) ==
    CASE import_type = "static_import"  -> {"import_from"}
      [] import_type = "dynamic_import" -> {"import_call", "lazy_call"}
      [] import_type = "lazy_import"    -> {"lazy_call"}
      [] import_type = "require"        -> {"require_call"}
      [] import_type = "export_from"    -> {"export_from"}

\* pattern.findall(content): the captured paths, in text order
FindAll(import_type, text) ==
    LET Hit(c) == c.shape \in PatternShapes(import_type)
        hits   == SelectSeq(text, Hit)
    IN  [i \in 1..Len(hits) |-> [import_type |-> import_type, import_path |-> hits[i].path]]

RECURSIVE AllMatches(_, _)
\* the matches of patterns k.. in the order the two for loops visit them
AllMatches(k, text) ==
    IF k > Len(import_patterns) THEN <<>>
    ELSE FindAll(import_patterns[k], text) \o AllMatches(k + 1, text)

\* the kind of an edge whose import resolved
ResolvedKind(import_type) ==
    IF import_type = "dynamic_import" \/ import_type = "lazy_import" THEN "dynamic"
    ELSE IF import_type = "export_from" THEN "re-export"
    ELSE "static"

\* the kind of an edge whose import did not resolve
ExternalKind(import_type) == "static"

\* the ImportInfo appended for one match m whose path resolved to resolved_path
MakeImportInfo(m, resolved_path, file_path) ==
    IF resolved_path # None
    THEN [from_file   |-> RelativeToRoot(file_path),
          to_file     |-> RelativeToRoot(resolved_path),
          import_type |-> ResolvedKind(m.import_type),
          import_name |-> m.import_path,
          is_external |-> FALSE]
    ELSE [from_file   |-> RelativeToRoot(file_path),
          to_file     |-> m.import_path,
          import_type |-> ExternalKind(m.import_type),
          import_name |-> m.import_path,
          is_external |-> TRUE]

ReadTextIgnoringFailure(text, unread, file_path) == text[file_path]

\* what open()/read() hands to the extractor: nothing for a file that cannot be read
ReadText(text, unread, file_path) == IF file_path \in unread THEN <<>> ELSE text[file_path]

\* each match with the result of resolve_import_path on it
ResolveMatches(fs, matches, file_path) ==
    [i \in 1..Len(matches) |->
        [m |-> matches[i],
         resolved_path |-> resolve_import_path(fs, matches[i].import_path, file_path)]]

\* the imports list of one file; raised is TRUE when relative_to raises
\* ValueError for a resolved path outside the project root
ImportsOf(resolved, file_path) ==
    IF \E i \in 1..Len(resolved) :
          resolved[i].resolved_path # None /\ ~InProject(resolved[i].resolved_path)
    THEN [raised |-> TRUE, imports |-> <<>>]
    ELSE [raised |-> FALSE,
          imports |-> [i \in 1..Len(resolved) |->
                          MakeImportInfo(resolved[i].m, resolved[i].resolved_path, file_path)]]

extract_imports_from_file(fs, text, unread, file_path) ==
    ImportsOf(ResolveMatches(fs, AllMatches(1, ReadText(text, unread, file_path)), file_path),
              file_path)

-----------------------------------------------------------------------------
(* The analysed project *)

\* the path of a project-relative name
InRoot(rel) == ProjectRoot \o Split(rel)

MainTsx   == InRoot("src/main.tsx")
ButtonTsx == InRoot("src/components/Button.tsx")

\* the files whose text the developer edits
Importers == {MainTsx, ButtonTsx}

\* a file next to the project, outside its root
OutsideFile == <<"Users", "damon", "x.ts">>

BaseFiles == Importers \cup
    {InRoot("src/components/Button.test.tsx"), InRoot("vite.config.ts"),
     InRoot("scripts/tool.ts"), OutsideFile}

OptionalFiles == {InRoot("src/Foo.tsx")}

\* the filesystem snapshots of the analysed project
Snapshots == {BaseFiles \cup o : o \in SUBSET OptionalFiles}

\* files of a project in which a directory name is the beginning of another
\* directory's name and of a file's name
ReportOptionalFiles == {InRoot("src/a/x.ts"), InRoot("src/a-b/x.ts"), InRoot("src/a.ts")}

\* the filesystem snapshots of the project the report is made for
ReportSnapshots == {Importers \cup o : o \in SUBSET ReportOptionalFiles}

\* memo of get_all_source_files over the snapshots
source_files_of == [fs \in Snapshots \cup ReportSnapshots |-> get_all_source_files(fs)]

\* memo of classify_file_type over the project's files
file_type_of ==
    [f \in BaseFiles \cup OptionalFiles \cup ReportOptionalFiles |-> classify_file_type(f)]

ImportPaths ==
    {"react", "@/Foo", "../Foo", "../scripts/tool", "@/../scripts/tool", "src/Foo.tsx", "../../x"}

\* the import constructs a file's text is made of: every shape on './Foo',
\* and a plain import of each of the other paths
Constructs ==
    {[shape |-> s, path |-> "./Foo"] : s \in Shapes}
    \cup {[shape |-> "import_from", path |-> q] : q \in ImportPaths}

\* the import constructs written in the project the report is made for
ReportConstructs ==
    {[shape |-> "import_from", path |-> q] : q \in {"@/a/x", "@/a-b/x", "@/a", "react"}}

-----------------------------------------------------------------------------
(* Graph builder *)

\* FileNode(id=relative_path, type=file_type)
FileNode(file_path) ==
    [id          |-> RelativeToRoot(file_path),
     type        |-> file_type_of[file_path],
     imports     |-> 0,
     imported_by |-> 0,
     is_orphaned |-> FALSE]

\* self.edges.extend(imports), before the files that follow
Extend(imports, rest) == [raised |-> rest.raised, imports |-> imports \o rest.imports]

RECURSIVE ExtractFrom(_, _, _, _, _)
RECURSIVE ExtendFrom(_, _, _, _, _, _)

\* the loop extending self.edges file by file, from the k-th source file on;
\* it stops at the first file whose extraction raises
ExtractFrom(k, fs, text, unread, source_files) ==
    IF k > Len(source_files) THEN [raised |-> FALSE, imports |-> <<>>]
    ELSE ExtendFrom(extract_imports_from_file(fs, text, unread, source_files[k]),
                    k, fs, text, unread, source_files)

\* one turn of the loop, r being what extract_imports_from_file gave for file k
ExtendFrom(r, k, fs, text, unread, source_files) ==
    IF r.raised THEN [raised |-> TRUE, imports |-> <<>>]
    ELSE Extend(r.imports, ExtractFrom(k + 1, fs, text, unread, source_files))

\* the edges tallied in import_counts[node_id]
CountsAsImport(edge, node_id) == ~edge.is_external /\ edge.from_file = node_id

CountsExternalToo(edge, node_id) == edge.to_file = node_id

\* the edges tallied in imported_by_counts[node_id]
CountsAsImportedBy(edge, node_id) == ~edge.is_external /\ edge.to_file = node_id

IsOrphanedIgnoringRole(imported_by, type) == imported_by = 0

IsOrphaned(imported_by, type) == imported_by = 0 /\ type \notin {"entry", "test"}

\* the 'Update node statistics' loop for one node
WithStatistics(node, all_edges) ==
    LET Out(e) == CountsAsImport(e, node.id)
        In(e)  == CountsAsImportedBy(e, node.id)
        imported_by == Len(SelectSeq(all_edges, In))
    IN  [node EXCEPT !.imports     = Len(SelectSeq(all_edges, Out)),
                     !.imported_by = imported_by,
                     !.is_orphaned = IsOrphaned(imported_by, node.type)]

\* the 'Calculate import statistics' and 'Update node statistics' loops
Tally(fresh, all_edges) == [i \in 1..Len(fresh) |-> WithStatistics(fresh[i], all_edges)]

\* the analyzer once the extraction loop has ended
Finish(fresh, extracted, old_edges) ==
    IF extracted.raised
    THEN [pc |-> "raised", nodes |-> fresh, edges |-> old_edges \o extracted.imports]
    ELSE [pc |-> "built",
          nodes |-> Tally(fresh, old_edges \o extracted.imports),
          edges |-> old_edges \o extracted.imports]

\* the nodes created for the source files
FreshNodes(source_files) == [i \in 1..Len(source_files) |-> FileNode(source_files[i])]

BuildFrom(source_files, fs, text, unread, old_edges) ==
    Finish(FreshNodes(source_files), ExtractFrom(1, fs, text, unread, source_files), old_edges)

\* the analyzer after build_dependency_graph on snapshot (fs, text, unread),
\* called with self.edges = old_edges
BuildOutcome(fs, text, unread, old_edges) ==
    BuildFrom(source_files_of[fs], fs, text, unread, old_edges)

-----------------------------------------------------------------------------
(* JSON document *)

NoDoc == [made |-> FALSE]

NodeTypes(ns) == {ns[i].type : i \in 1..Len(ns)}

AllEdges(es) == es

\* internal_edges: the edges that are not external
InternalEdges(es) ==
    LET Internal(e) == ~e.is_external
    IN  SelectSeq(es, Internal)

generate_json_output(ns, es) ==
    LET External(e)    == e.is_external
        Orphaned(n)    == n.is_orphaned
        Entry(n)       == n.type = "entry"
        internal_edges == InternalEdges(es)
        orphaned_files == SelectSeq(ns, Orphaned)
    IN  [made  |-> TRUE,
         nodes |-> ns,
         edges |-> internal_edges,
         stats |-> [totalFiles           |-> Len(ns),
                    totalImports         |-> Len(internal_edges),
                    orphanedFiles        |-> Len(orphaned_files),
                    externalDependencies |-> Len(SelectSeq(es, External)),
                    entryPoints          |-> Len(SelectSeq(ns, Entry)),
                    fileTypes            |-> [t \in NodeTypes(ns) |->
                                               Cardinality({i \in 1..Len(ns) : ns[i].type = t})]],
         orphanedFiles |-> [i \in 1..Len(orphaned_files) |-> orphaned_files[i].id]]

-----------------------------------------------------------------------------
(* The analysis run *)

NoRes == [made |-> FALSE]
NoCls == [made |-> FALSE]
NoReport == [made |-> FALSE]

TotalImports == Len(content[MainTsx]) + Len(content[ButtonTsx])

Init ==
    /\ files \in Snapshots
    /\ content = [f \in files |-> <<>>]
    /\ unreadable \in SUBSET {ButtonTsx}
    /\ nodes = <<>>
    /\ edges = <<>>
    /\ pc = "new"
    /\ builds = 0
    /\ doc = NoDoc
    /\ res = NoRes
    /\ cls = NoCls
    /\ report = NoReport

\* the developer writes one more import construct into a file, before the analysis
WriteImport(f, c) ==
    /\ pc = "new"
    /\ TotalImports < MaxImports
    /\ content' = [content EXCEPT ![f] = Append(@, c)]
    /\ UNCHANGED <<files, unreadable, nodes, edges, pc, builds, doc, res, cls, report>>

\* analyzer.build_dependency_graph()
build_dependency_graph ==
    /\ pc \in {"new", "built"}
    /\ builds < MaxBuilds
    /\ \E out \in {BuildOutcome(files, content, unreadable, edges)} :
           /\ pc' = out.pc
           /\ nodes' = out.nodes
           /\ edges' = out.edges
    /\ builds' = builds + 1
    /\ UNCHANGED <<files, content, unreadable, doc, res, cls, report>>

\* analyzer.generate_json_output(), as save_outputs calls it after the build
GenerateJsonOutput ==
    /\ pc = "built"
    /\ doc' = generate_json_output(nodes, edges)
    /\ UNCHANGED <<files, content, unreadable, nodes, edges, pc, builds, res, cls, report>>

Next ==
    \/ \E f \in Importers, c \in Constructs : WriteImport(f, c)
    \/ build_dependency_graph
    \/ GenerateJsonOutput

Spec == Init /\ [][Next]_vars

-----------------------------------------------------------------------------
(* resolve_import_path as a function of (raw path, declaring file, snapshot) *)

ResolveFiles ==
    {InRoot("src/Foo.ts"), InRoot("src/Foo.tsx"), InRoot("src/Foo.jsx"),
     InRoot("src/Foo/index.ts"), InRoot("src/Foo/index.js"),
     InRoot("src/Button.ts"), InRoot("src/Button.styles.ts"), InRoot("src/Button.styles.tsx")}

ResolvePaths ==
    {"./Foo", "../Foo", "@/Foo", "./Button.styles", "@/Button.styles", "./Button",
     "@/components/../Foo", "react", "./Foo.jsx"}

DeclaringFiles == {InRoot("src/App.tsx"), ButtonTsx}

InitResolve ==
    /\ files \in SUBSET ResolveFiles
    /\ content = [f \in files |-> <<>>]
    /\ unreadable = {}
    /\ nodes = <<>>
    /\ edges = <<>>
    /\ pc = "new"
    /\ builds = 0
    /\ doc = NoDoc
    /\ res = NoRes
    /\ cls = NoCls
    /\ report = NoReport

ResolveImportPath(import_path, from_file) ==
    /\ res' = [made |-> TRUE, import_path |-> import_path, from_file |-> from_file,
               result |-> resolve_import_path(files, import_path, from_file)]
    /\ UNCHANGED <<files, content, unreadable, nodes, edges, pc, builds, doc, cls, report>>

NextResolve == \E q \in ResolvePaths, f \in DeclaringFiles : ResolveImportPath(q, f)

SpecResolve == InitResolve /\ [][NextResolve]_vars

-----------------------------------------------------------------------------
(* classify_file_type as a function of the path *)

DirNames ==
    {"components", "services", "api", "utils", "lib", "pages", "hooks", "context",
     "providers", "features", "__tests__", "ui"}

FileNames ==
    {"main.tsx", "App.tsx", "Button.test.tsx", "client.spec.ts", "vite.config.ts",
     "types.ts", "globals.d.ts", "domain.ts", "index.ts"}

DirChains == UNION {[1..k -> DirNames] : k \in 0..MaxDepth}

ClassifyPaths == {SrcRoot \o d \o <<n>> : d \in DirChains, n \in FileNames}

InitClassify ==
    /\ files = {}
    /\ content = <<>>
    /\ unreadable = {}
    /\ nodes = <<>>
    /\ edges = <<>>
    /\ pc = "new"
    /\ builds = 0
    /\ doc = NoDoc
    /\ res = NoRes
    /\ cls = NoCls
    /\ report = NoReport

ClassifyFileType(file_path) ==
    /\ cls' = [made |-> TRUE, file_path |-> file_path, type |-> classify_file_type(file_path)]
    /\ UNCHANGED <<files, content, unreadable, nodes, edges, pc, builds, doc, res, report>>

NextClassify == \E p \in ClassifyPaths : ClassifyFileType(p)

SpecClassify == InitClassify /\ [][NextClassify]_vars

-----------------------------------------------------------------------------
(* The analysis report, made from the saved JSON document *)

\* {node['id']: node for node in graph_data['nodes']}.values(): one node per
\* id, at the place of the id's first occurrence, the last node of that id
NodesById(ns) ==
    LET First(i) == \A j \in 1..(i - 1) : ns[j].id # ns[i].id
        Last(i)  == CHOOSE k \in i..Len(ns) :
                        ns[k].id = ns[i].id /\ \A j \in (k + 1)..Len(ns) : ns[j].id # ns[i].id
        firsts   == SelectSeq([i \in 1..Len(ns) |-> i], First)
    IN  [n \in 1..Len(firsts) |-> ns[Last(firsts[n])]]

\* sorted(values, key=lambda x: x[key], reverse=True): by descending x[key],
\* the values of equal x[key] in the order they have in values (the sort is
\* stable)
SortedDescending(values, key) ==
    LET Before(j, i) == \/ values[j][key] > values[i][key]
                        \/ values[j][key] = values[i][key] /\ j < i
        Place(i) == Cardinality({j \in 1..Len(values) : Before(j, i)}) + 1
    IN  [n \in 1..Len(values) |-> values[CHOOSE i \in 1..Len(values) : Place(i) = n]]

\* seq[:10]
FirstTen(seq) == SubSeq(seq, 1, IF Len(seq) < 10 THEN Len(seq) ELSE 10)

\* the by_imports and by_imported lists of analyze_dependency_graph for the
\* loaded document graph_data
analyze_dependency_graph(graph_data) ==
    [made        |-> TRUE,
     by_imports  |-> FirstTen(SortedDescending(NodesById(graph_data.nodes), "imports")),
     by_imported |-> FirstTen(SortedDescending(NodesById(graph_data.nodes), "imported_by"))]

InitReport ==
    /\ files \in ReportSnapshots
    /\ content = [f \in files |-> <<>>]
    /\ unreadable = {}
    /\ nodes = <<>>
    /\ edges = <<>>
    /\ pc = "new"
    /\ builds = 0
    /\ doc = NoDoc
    /\ res = NoRes
    /\ cls = NoCls
    /\ report = NoReport

\* the report script run on the document that save_outputs wrote
AnalyzeDependencyGraph ==
    /\ doc.made
    /\ report' = analyze_dependency_graph(doc)
    /\ UNCHANGED <<files, content, unreadable, nodes, edges, pc, builds, doc, res, cls>>

NextReport ==
    \/ \E f \in Importers, c \in ReportConstructs : WriteImport(f, c)
    \/ build_dependency_graph
    \/ GenerateJsonOutput
    \/ AnalyzeDependencyGraph

SpecReport == InitReport /\ [][NextReport]_vars

-----------------------------------------------------------------------------
(* Properties of the built graph *)

NodeIds == {nodes[i].id : i \in 1..Len(nodes)}

NodeOf(id) == nodes[CHOOSE i \in 1..Len(nodes) : nodes[i].id = id]

InternalTo(id) == {k \in 1..Len(edges) : ~edges[k].is_external /\ edges[k].to_file = id}

InternalFrom(id) == {k \in 1..Len(edges) : ~edges[k].is_external /\ edges[k].from_file = id}

\* C1: after build_dependency_graph completes, a node is flagged orphaned
\* exactly when nothing imports it and its type is neither entry nor test.
C1_OrphanFlag ==
    pc = "built" =>
        \A i \in 1..Len(nodes) :
            nodes[i].is_orphaned <=>
                (nodes[i].imported_by = 0 /\ nodes[i].type # "entry" /\ nodes[i].type # "test")

\* a build that left an orphan, an unimported entry point and an imported file
C1_Witness ==
    /\ pc = "built"
    /\ \E i \in 1..Len(nodes) : nodes[i].is_orphaned /\ nodes[i].imported_by = 0
    /\ \E i \in 1..Len(nodes) :
          nodes[i].type \in {"entry", "test"} /\ nodes[i].imported_by = 0 /\ ~nodes[i].is_orphaned
    /\ \E i \in 1..Len(nodes) : nodes[i].imported_by > 0 /\ ~nodes[i].is_orphaned

\* C2: after build_dependency_graph completes, both ends of every internal
\* edge are ids of nodes.
C2_NoDanglingEdge ==
    pc = "built" =>
        \A k \in 1..Len(edges) :
            ~edges[k].is_external =>
                edges[k].to_file \in NodeIds /\ edges[k].from_file \in NodeIds

\* C3: after build_dependency_graph completes, a node's imports and
\* imported_by are the numbers of internal edges leaving and reaching it;
\* external edges are not counted, whatever their to_file text.
C3_DegreeCounts ==
    pc = "built" =>
        \A i \in 1..Len(nodes) :
            /\ nodes[i].imports = Cardinality(InternalFrom(nodes[i].id))
            /\ nodes[i].imported_by = Cardinality(InternalTo(nodes[i].id))

\* a build with an external edge whose to_file text is the id of a node that
\* an internal edge also reaches
C3_Witness ==
    /\ pc = "built"
    /\ \E k \in 1..Len(edges) :
          /\ edges[k].is_external
          /\ edges[k].to_file \in NodeIds
          /\ NodeOf(edges[k].to_file).imported_by >= 1
          /\ NodeOf(edges[k].from_file).imports >= 1

-----------------------------------------------------------------------------
(* Properties of the JSON document *)

ExternalEdges == {k \in 1..Len(edges) : edges[k].is_external}

\* the document d lists exactly the internal edges of es and the orphans of ns,
\* and its statistics count them
DocumentAgrees(d, ns, es) ==
    /\ \A j \in 1..Len(d.edges) : ~d.edges[j].is_external
    /\ \E g \in [1..Len(d.edges) -> 1..Len(es)] :
          /\ \A j \in 1..Len(d.edges) : d.edges[j] = es[g[j]]
          /\ \A i, j \in 1..Len(d.edges) : i < j => g[i] < g[j]
          /\ \A k \in 1..Len(es) : ~es[k].is_external => \E j \in 1..Len(d.edges) : g[j] = k
    /\ d.stats.totalImports = Len(d.edges)
    /\ d.stats.externalDependencies = Cardinality({k \in 1..Len(es) : es[k].is_external})
    /\ d.stats.orphanedFiles = Len(d.orphanedFiles)
    /\ Len(d.orphanedFiles) = Cardinality({i \in 1..Len(ns) : ns[i].is_orphaned})
    /\ \A i \in 1..Len(ns) :
          ns[i].is_orphaned <=> \E j \in 1..Len(d.orphanedFiles) : d.orphanedFiles[j] = ns[i].id

\* C4: the document returned by generate_json_output lists exactly the
\* internal edges, counts them in totalImports, counts the external edges in
\* externalDependencies, and lists and counts exactly the flagged orphans.
C4_Document == [][doc' # doc => DocumentAgrees(doc', nodes, edges)]_vars

\* a document made from a graph in which 'react' is imported: the import is
\* counted as an external dependency and is not among the document's edges
C4_Witness ==
    /\ doc.made
    /\ pc = "built" /\ builds = 1
    /\ \E k \in 1..Len(edges) : edges[k].is_external /\ edges[k].to_file = "react"
    /\ \E k \in 1..Len(edges) : ~edges[k].is_external
    /\ doc.stats.externalDependencies >= 1
    /\ Len(doc.edges) = Len(edges) - doc.stats.externalDependencies
    /\ Len(doc.edges) >= 1
    /\ Len(doc.orphanedFiles) >= 1

-----------------------------------------------------------------------------
(* Properties of the resolver *)

\* the candidate path with the extension added to it
WithExtensionAdded(p, ext) == Append(Parent(p), Name(p) \o ext)

\* the file the probes of the specification select: the first extension for
\* which candidate + extension exists, else the first index file, else None
ProbeResult(fs, candidate) ==
    LET Direct(i) == WithExtensionAdded(candidate, Extensions[i])
        Index(i)  == Append(candidate, "index" \o Extensions[i])
        DirectHit(i) == Exists(fs, Direct(i))
        IndexHit(i)  == IsDir(fs, candidate) /\ Exists(fs, Index(i))
    IN  IF \E i \in 1..Len(Extensions) : DirectHit(i)
        THEN Direct(CHOOSE i \in 1..Len(Extensions) : DirectHit(i) /\ \A j \in 1..(i - 1) : ~DirectHit(j))
        ELSE IF \E i \in 1..Len(Extensions) : IndexHit(i)
        THEN Index(CHOOSE i \in 1..Len(Extensions) : IndexHit(i) /\ \A j \in 1..(i - 1) : ~IndexHit(j))
        ELSE None

\* the place a raw path denotes: below the src root for an alias path, else
\* below the directory of the declaring file
Denoted(import_path, from_file) ==
    IF StartsWith(import_path, "@/")
    THEN Resolve(SrcRoot \o ParseParts(SubSeq(import_path, 3, Len(import_path))))
    ELSE Resolve(Parent(from_file) \o ParseParts(import_path))

\* C5: resolve_import_path returns the candidate with the first extension of
\* .ts, .tsx, .js, .jsx added for which a file exists, else the first existing
\* index file of the candidate directory, else None, for every relative or
\* alias path, dotted last segment or not.
C5_ProbeOrder ==
    (res.made /\ (StartsWith(res.import_path, ".") \/ StartsWith(res.import_path, "@/"))) =>
        res.result = ProbeResult(files, Denoted(res.import_path, res.from_file))

IsAlias(import_path) == StartsWith(import_path, "@/")

\* the same place spelled relative to a file that lies directly in the src root
RelativeSpelling(import_path) == "./" \o SubSeq(import_path, 3, Len(import_path))

\* the discovered source files of the snapshot
Discovered == {source_files_of[files][i] : i \in 1..Len(source_files_of[files])}

-----------------------------------------------------------------------------
(* Properties of the classifier *)

PatternTypes == <<"entry", "test", "config", "type">>

\* the project-relative path contains one of the patterns of the i-th type
MatchesType(file_path, i) ==
    \E pattern \in file_type_patterns[i].patterns : Contains(RelativeToRoot(file_path), pattern)

DirectoryRules == <<
    [dirs |-> {"components"},          type |-> "component"],
    [dirs |-> {"services", "api"},     type |-> "service"],
    [dirs |-> {"utils", "lib"},        type |-> "utility"],
    [dirs |-> {"pages"},               type |-> "page"],
    [dirs |-> {"hooks"},               type |-> "hook"],
    [dirs |-> {"context", "providers"}, type |-> "context"],
    [dirs |-> {"features"},            type |-> "feature"] >>

UnderDirectory(file_path, i) == \E d \in DirectoryRules[i].dirs : InParts(d, file_path)

\* C7: classify_file_type gives the type of the first matching rule, the
\* pattern rules entry, test, config, type before the directory rules, and
\* 'module' when no rule matches.
C7_FirstMatch ==
    cls.made =>
        LET f == cls.file_path
            anyPattern == \E i \in 1..Len(PatternTypes) : MatchesType(f, i)
            anyDir     == \E i \in 1..Len(DirectoryRules) : UnderDirectory(f, i)
        IN  /\ \A i \in 1..Len(PatternTypes) :
                  (MatchesType(f, i) /\ \A j \in 1..(i - 1) : ~MatchesType(f, j))
                  => cls.type = PatternTypes[i]
            /\ \A i \in 1..Len(DirectoryRules) :
                  (~anyPattern /\ UnderDirectory(f, i) /\ \A j \in 1..(i - 1) : ~UnderDirectory(f, j))
                  => cls.type = DirectoryRules[i].type
            /\ (~anyPattern /\ ~anyDir) => cls.type = "module"

\* a file named *.test.* under a components directory, classified test
C7_Witness ==
    /\ cls.made
    /\ InParts("components", cls.file_path)
    /\ Contains(Name(cls.file_path), ".test.")
    /\ cls.type = "test"

-----------------------------------------------------------------------------
(* Properties of a repeated build *)

\* C8: a second build_dependency_graph on the same analyzer and snapshot
\* leaves every node's counts and flag, and the edge list, as the first did.
C8_RebuildIdempotent ==
    [][(pc = "built" /\ pc' = "built" /\ builds' = builds + 1)
        => (nodes' = nodes /\ edges' = edges)]_vars

\* the snapshot with no import read from an unreadable file
ReadableContent == [f \in DOMAIN content |-> IF f \in unreadable THEN <<>> ELSE content[f]]

\* C9: a file that cannot be read yields no edges and no exception: the build
\* ends as it would if the file held no imports, and the file's node is there
\* with imports = 0.
C9_UnreadableFile ==
    [][builds' = builds + 1 =>
        /\ LET out == BuildOutcome(files, ReadableContent, {}, edges)
           IN  pc' = out.pc /\ nodes' = out.nodes /\ edges' = out.edges
        /\ \A f \in unreadable :
              /\ \A k \in 1..Len(edges') : edges'[k].from_file # RelativeToRoot(f)
              /\ pc' = "built" =>
                    \E i \in 1..Len(nodes') :
                        nodes'[i].id = RelativeToRoot(f) /\ nodes'[i].imports = 0]_vars

\* a completed build of a tree whose unreadable file holds an import while
\* another file contributed edges
C9_Witness ==
    /\ pc = "built"
    /\ \E f \in unreadable : Len(content[f]) > 0 /\ RelativeToRoot(f) \in NodeIds
    /\ Len(edges) > 0

\* the kind the specification gives to a match of each pattern
KindOfPattern(import_type) ==
    CASE import_type \in {"dynamic_import", "lazy_import"} -> "dynamic"
      [] import_type = "export_from" -> "re-export"
      [] import_type \in {"static_import", "require"} -> "static"

\* C10: every edge, internal or external, carries the kind of a pattern that
\* matched the construct it was extracted from.
C10_EdgeKind ==
    \A k \in 1..Len(edges) :
        \E f \in DOMAIN content : \E n \in 1..Len(content[f]) : \E t \in 1..Len(import_patterns) :
            /\ RelativeToRoot(f) = edges[k].from_file
            /\ content[f][n].path = edges[k].import_name
            /\ content[f][n].shape \in PatternShapes(import_patterns[t])
            /\ KindOfPattern(import_patterns[t]) = edges[k].import_type

-----------------------------------------------------------------------------
(* Properties of the extractor *)

\* the edges extracted from the text of file f
EdgesFrom(f) == {k \in 1..Len(edges) : edges[k].from_file = RelativeToRoot(f)}

\* the import occurrences in the text of f that reach the file of node id
OccurrencesReaching(f, id) ==
    {n \in 1..Len(ReadableContent[f]) :
        LET target == resolve_import_path(files, ReadableContent[f][n].path, f)
        IN  target # None /\ RelativeToRoot(target) = id}

\* C11: after the first build, every file has exactly one edge per import
\* occurrence in its text, a React.lazy(() => import('./X')) call counting as
\* one occurrence, and a node's imported_by is the number of occurrences that
\* reach it.
C11_OneEdgePerOccurrence ==
    (pc = "built" /\ builds = 1) =>
        /\ \A f \in Importers : Cardinality(EdgesFrom(f)) = Len(ReadableContent[f])
        /\ \A i \in 1..Len(nodes) :
              nodes[i].imported_by =
                  Cardinality(OccurrencesReaching(MainTsx, nodes[i].id))
                  + Cardinality(OccurrencesReaching(ButtonTsx, nodes[i].id))

-----------------------------------------------------------------------------
(* Properties of the report *)

\* ranking lists every node of ns once, by descending count key, nodes of
\* equal count by ascending id as strings
RankedBy(ranking, ns, key) ==
    /\ Len(ranking) = Len(ns)
    /\ \A i \in 1..Len(ns) : \E n \in 1..Len(ranking) : ranking[n] = ns[i]
    /\ \A m, n \in 1..Len(ranking) :
          m < n =>
              \/ ranking[m][key] > ranking[n][key]
              \/ ranking[m][key] = ranking[n][key] /\ StrLess(ranking[m].id, ranking[n].id)

\* C12: the hub ranking made from a document lists the document's nodes by
\* descending imports and the critical-dependency ranking by descending
\* imported_by, nodes of equal count in ascending order of their id strings.
C12_RankingOrder ==
    [][report' # report =>
        /\ RankedBy(report'.by_imports, doc.nodes, "imports")
        /\ RankedBy(report'.by_imported, doc.nodes, "imported_by")]_vars

====
